---- MODULE Spec2Model ----
\* A model of the OpenAI client (src/index.js) and its URL builder
\* (src/unnamed/part_001, required as ./config): the facade methods, the
\* dispatcher _send_request, the embeddings engine-name validator, the caller's
\* options objects (which complete and search mutate) and the transport (axios),
\* seen as a log of the requests handed to it and one promise per request.
\* given holds the caller's objects as the caller built them, before any call.
\*
\* Strings that the code takes apart (option keys) are sequences of
\* one-character strings; strings that the code only concatenates (URLs, the
\* error message, the Authorization header) are the sequence of the template's
\* parts; every other string is an atom.
EXTENDS Integers, Sequences, FiniteSets, TLC

VARIABLES api_key, given, heap, requests, promises, last

vars == <<api_key, given, heap, requests, promises, last>>

----------------------------------------------------------------------------
\* Bounds

\* number of facade calls in one behaviour
MaxCalls == 2
\* length of the generated option keys
MaxKeyLen == 3
\* number of entries of the generated options objects
MaxOpts == 2

----------------------------------------------------------------------------
\* JavaScript values

\* the value of a missing property
Undefined == "<undefined>"

\* the operand test of ||, over strings and undefined
Truthy(v) == v # Undefined /\ v # ""

\* An object is the sequence of its own enumerable properties in enumeration
\* order (insertion order, for the non-numeric keys used here).
Has(obj, key) == \E i \in 1..Len(obj) : obj[i].k = key

Get(obj, key) ==
    IF Has(obj, key)
    THEN obj[CHOOSE i \in 1..Len(obj) : obj[i].k = key].v
    ELSE Undefined

\* an assignment that leaves an existing property alone
Put_first_wins(obj, key, val) ==
    IF Has(obj, key) THEN obj ELSE Append(obj, [k |-> key, v |-> val])

\* obj[key] = val: an existing property keeps its place, a new one goes last
Put(obj, key, val) ==
    IF Has(obj, key)
    THEN [i \in 1..Len(obj) |-> IF obj[i].k = key THEN [k |-> key, v |-> val] ELSE obj[i]]
    ELSE Append(obj, [k |-> key, v |-> val])

\* a delete that takes the properties after the key with it
Delete_rest(obj, key) ==
    IF Has(obj, key)
    THEN SubSeq(obj, 1, (CHOOSE i \in 1..Len(obj) : obj[i].k = key) - 1)
    ELSE obj

\* delete obj[key]
Delete(obj, key) == SelectSeq(obj, LAMBDA e : e.k # key)

\* Object.keys(obj)
Keys(obj) == [i \in 1..Len(obj) |-> obj[i].k]

\* the characters /[A-Z]/ matches, among the characters of the model
IsUpper(c) == c \in {"B", "T", "P"}

\* String.prototype.toLowerCase, one character
LowerChar(c) ==
    CASE c = "B" -> "b"
      [] c = "T" -> "t"
      [] c = "P" -> "p"
      [] OTHER -> c

toLowerCase(s) == [i \in 1..Len(s) |-> LowerChar(s[i])]

\* key.replace(/([A-Z])/g, " $1")
RECURSIVE replaceUpper(_)
replaceUpper(s) ==
    IF s = <<>> THEN <<>>
    ELSE (IF IsUpper(Head(s)) THEN <<" ", Head(s)>> ELSE <<Head(s)>>) \o replaceUpper(Tail(s))

\* s.split(sep): the pieces between the separators, empty pieces included
RECURSIVE split(_, _)
split(s, sep) ==
    IF \A i \in 1..Len(s) : s[i] # sep THEN <<s>>
    ELSE LET p == CHOOSE i \in 1..Len(s) : s[i] = sep /\ \A j \in 1..(i - 1) : s[j] # sep
         IN <<SubSeq(s, 1, p - 1)>> \o split(SubSeq(s, p + 1, Len(s)), sep)

\* parts.join(sep)
RECURSIVE join(_, _)
join(parts, sep) ==
    IF parts = <<>> THEN <<>>
    ELSE IF Len(parts) = 1 THEN parts[1]
    ELSE parts[1] \o <<sep>> \o join(Tail(parts), sep)

camelToUnderscore(key) == toLowerCase(join(split(replaceUpper(key), " "), "_"))

----------------------------------------------------------------------------
\* The URL builder (./config)

DEFAULT_ENGINE == "davinci"
ORIGIN == "https://api.openai.com"
API_VERSION == "v1"
OPEN_AI_URL == <<ORIGIN, "/", API_VERSION>>

\* `${engine}` in a template literal
Interpolate(v) == IF v = Undefined THEN "undefined" ELSE v

completionURL(engine) == OPEN_AI_URL \o <<"/engines/", Interpolate(engine), "/completions">>
\* the search URL with the path of the completions
searchURL_completions(engine) ==
    OPEN_AI_URL \o <<"/engines/", Interpolate(engine), "/completions">>

searchURL(engine) == OPEN_AI_URL \o <<"/engines/", Interpolate(engine), "/search">>
enginesUrl == OPEN_AI_URL \o <<"/engines">>
engineUrl(engine) == OPEN_AI_URL \o <<"/engines/", Interpolate(engine)>>
classificationsUrl == OPEN_AI_URL \o <<"/classifications">>
answersUrl == OPEN_AI_URL \o <<"/answers">>
embeddingsUrl(engine) == OPEN_AI_URL \o <<"/engines/", Interpolate(engine), "/embeddings">>

----------------------------------------------------------------------------
\* The embeddings engine-name validator

availableEngineNames ==
    << "text-similarity-ada-001",
       "text-similarity-babbage-001",
       "text-similarity-curie-001",
       "text-similarity-davinci-001",
       "text-search-ada-doc-001",
       "text-search-ada-query-001",
       "text-search-babbage-doc-001",
       "text-search-babbage-query-001",
       "text-search-curie-doc-001",
       "text-search-curie-query-001",
       "text-search-davinci-doc-001",
       "text-search-davinci-query-001",
       "code-search-ada-code-001",
       "code-search-ada-text-001",
       "code-search-babbage-code-001",
       "code-search-babbage-text-001" >>

\* a membership test that misses the last element
includes_but_last(arr, x) == \E i \in 1..(Len(arr) - 1) : arr[i] = x

\* Array.prototype.includes
includes(arr, x) == \E i \in 1..Len(arr) : arr[i] = x

\* `${array}`: the elements joined by commas
arrayToString(arr) == join([i \in 1..Len(arr) |-> <<arr[i]>>], ",")

NoError == [threw |-> FALSE, message |-> <<>>]

\* the outcome of the validator: whether it threw, and the Error's message
_check_embeddings_engine_name(engine) ==
    IF ~includes(availableEngineNames, engine)
    THEN [threw |-> TRUE,
          message |-> <<"Unknown engine name for embeddings. Available engine names are ">>
                      \o arrayToString(availableEngineNames)]
    ELSE NoError

----------------------------------------------------------------------------
\* The dispatcher

\* the loop that fills data: data[camelToUnderscore(key)] = opts[key], in the
\* enumeration order of opts
RECURSIVE fillData(_, _)
fillData(data, opts) ==
    IF opts = <<>> THEN data
    ELSE fillData(Put(data, camelToUnderscore(Head(opts).k), Head(opts).v), Tail(opts))

\* the two shapes of the request's data: the empty string, or the object
EmptyBody == [kind |-> "string", str |-> ""]
ObjectBody(data) == [kind |-> "object", obj |-> data]

\* the promise axios returns for the n-th request handed to it
AxiosPromise(n) == [kind |-> "transport", id |-> n, value |-> <<>>]

\* a dispatcher that sends the object even when it has no keys
_send_request_object(key, n, url, method, opts) ==
    [sent |-> << [url |-> url,
                  headers |-> [Authorization |-> <<"Bearer ", key>>,
                               ContentType |-> "application/json"],
                  data |-> ObjectBody(fillData(<<>>, opts)),
                  method |-> method] >>,
     ret |-> AxiosPromise(n + 1)]

\* a dispatcher that hands the request over a second time
_send_request_again(key, n, url, method, opts) ==
    LET req == [url |-> url,
                headers |-> [Authorization |-> <<"Bearer ", key>>,
                             ContentType |-> "application/json"],
                data |-> IF Len(fillData(<<>>, opts)) # 0
                         THEN ObjectBody(fillData(<<>>, opts)) ELSE EmptyBody,
                method |-> method]
    IN  [sent |-> <<req, req>>, ret |-> AxiosPromise(n + 2)]

\* _send_request(url, method, opts) of a client whose key is key, when the
\* transport has been handed n requests so far: the requests it hands to the
\* transport, and the promise it returns
_send_request(key, n, url, method, opts) ==
    LET data == fillData(<<>>, opts)
    IN  [sent |-> << [url |-> url,
                      headers |-> [Authorization |-> <<"Bearer ", key>>,
                                   ContentType |-> "application/json"],
                      data |-> IF Len(Keys(data)) # 0 THEN ObjectBody(data) ELSE EmptyBody,
                      method |-> method] >>,
         ret |-> AxiosPromise(n + 1)]

----------------------------------------------------------------------------
\* The inputs

\* option names, as the sequences of their characters
K_engine == <<"e", "n", "g", "i", "n", "e">>
K_maxTokens == <<"m", "a", "x", "T", "o", "k", "e", "n", "s">>
K_max_tokens == <<"m", "a", "x", "_", "t", "o", "k", "e", "n", "s">>
K_topP == <<"t", "o", "p", "P">>
K_top_p == <<"t", "o", "p", "_", "p">>
K_top_space_p == <<"t", "o", "p", " ", "p">>
K_n == <<"n">>

Entry(key, val) == [k |-> key, v |-> val]

\* the options objects the caller of the facade holds
Fixtures ==
    { <<>>,
      <<Entry(K_maxTokens, "5"), Entry(K_topP, "0.9")>>,
      <<Entry(K_engine, "code-search-babbage-text-001")>>,
      <<Entry(K_maxTokens, "5"), Entry(K_engine, "not-a-real-engine")>>,
      <<Entry(K_engine, ""), Entry(K_n, "3")>> }

\* the second object of the caller, which a call on the first must leave alone
OtherFixtures ==
    { <<Entry(K_topP, "0.9")>>,
      <<Entry(K_engine, "text-similarity-ada-001"), Entry(K_maxTokens, "7")>> }

\* the engine names handed to engine(), and the strings handed to encode()
EngineArgs == {"text-davinci-002"}
EncodeArgs == {"", "hello"}

ObjIds == {"o1", "o2"}
ApiKeys == {"sk-test"}

\* every string of 1..n characters of the alphabet
Alphabet == {"a", "B", " ", "_"}
RECURSIVE StringsOfLen(_)
StringsOfLen(n) ==
    IF n = 0 THEN {<<>>}
    ELSE {<<c>> \o s : c \in Alphabet, s \in StringsOfLen(n - 1)}
GeneratedKeys == UNION {StringsOfLen(n) : n \in 1..MaxKeyLen}

\* every object of at most n entries with distinct keys among ks and values among vs
RECURSIVE ObjectsOver(_, _, _)
ObjectsOver(ks, vs, n) ==
    IF n = 0 THEN {<<>>}
    ELSE LET smaller == ObjectsOver(ks, vs, n - 1)
         IN  smaller \cup {Append(obj, Entry(key, val)) :
                            obj \in {x \in smaller : Len(x) = n - 1}, key \in ks, val \in vs}

DistinctKeys(obj) == \A i, j \in 1..Len(obj) : obj[i].k = obj[j].k => i = j

\* the objects of the input-exhaustive specification: one generated key; several
\* keys that the transform may or may not send to the same wire key; one engine
InputObjects ==
    {<<Entry(key, "x")>> : key \in GeneratedKeys}
    \cup {obj \in ObjectsOver({K_topP, K_top_p, K_top_space_p, K_n, K_engine}, {"x", "y"}, MaxOpts) :
            DistinctKeys(obj)}
    \cup {<<Entry(K_engine, availableEngineNames[i])>> : i \in 1..Len(availableEngineNames)}

\* the second object of the input-exhaustive specification: an engine the
\* validator does not know
RejectedFixture == <<Entry(K_engine, "not-a-real-engine"), Entry(K_n, "3")>>

----------------------------------------------------------------------------
\* The client, the caller's objects and the transport

NoRet == [kind |-> "none", id |-> 0, value |-> <<>>]
Pending == [state |-> "pending", value |-> ""]

\* what the transport may make of a request: a response, a transport failure,
\* a non-2xx status
Outcomes ==
    { [state |-> "fulfilled", value |-> "response"],
      [state |-> "rejected", value |-> "network-error"],
      [state |-> "rejected", value |-> "status-404"] }

\* new OpenAI(api_key), and the last facade call: none yet
Constructed(key) ==
    /\ api_key = key
    /\ requests = <<>>
    /\ promises = <<>>
    /\ last = [seq |-> 0, method |-> "constructor", arg |-> "", threw |-> FALSE,
               message |-> <<>>, ret |-> NoRet]

Init ==
    /\ \E key \in ApiKeys : Constructed(key)
    /\ \E first \in Fixtures, second \in OtherFixtures :
           heap = [o \in ObjIds |-> IF o = "o1" THEN first ELSE second]
    /\ given = heap

InitInputs ==
    /\ \E key \in ApiKeys : Constructed(key)
    /\ \E obj \in InputObjects : heap = [o \in ObjIds |-> IF o = "o1" THEN obj ELSE RejectedFixture]
    /\ given = heap

\* a facade call returns what the dispatcher returns, after the dispatcher has
\* handed its requests to the transport
Dispatch(name, arg, r) ==
    /\ requests' = requests \o r.sent
    /\ promises' = promises \o [i \in 1..Len(r.sent) |-> Pending]
    /\ last' = [seq |-> last.seq + 1, method |-> name, arg |-> arg, threw |-> FALSE,
                message |-> <<>>, ret |-> r.ret]

complete(o) ==
    /\ last.seq < MaxCalls
    /\ LET opts == heap[o]
           url == completionURL(IF Truthy(Get(opts, K_engine)) THEN Get(opts, K_engine)
                                ELSE DEFAULT_ENGINE)
           rest == Delete(opts, K_engine)
       IN  /\ heap' = [heap EXCEPT ![o] = rest]
           /\ Dispatch("complete", o, _send_request(api_key, Len(requests), url, "post", rest))
    /\ UNCHANGED <<api_key, given>>

\* an array whose length follows the argument
encoded_by_input(str) == IF str = "" THEN <<>> ELSE [i \in 1..2047 |-> ""]

\* new Array(2047).fill(""), whatever the arguments of the call
encoded(str) == [i \in 1..2047 |-> ""]

\* Promise.resolve(...): a promise that is already fulfilled, and not the transport's
encode(str) ==
    /\ last.seq < MaxCalls
    /\ last' = [seq |-> last.seq + 1, method |-> "encode", arg |-> str, threw |-> FALSE,
                message |-> <<>>,
                ret |-> [kind |-> "resolved", id |-> 0, value |-> encoded(str)]]
    /\ UNCHANGED <<api_key, given, heap, requests, promises>>

search(o) ==
    /\ last.seq < MaxCalls
    /\ LET opts == heap[o]
           url == searchURL(IF Truthy(Get(opts, K_engine)) THEN Get(opts, K_engine)
                            ELSE DEFAULT_ENGINE)
           rest == Delete(opts, K_engine)
       IN  /\ heap' = [heap EXCEPT ![o] = rest]
           /\ Dispatch("search", o, _send_request(api_key, Len(requests), url, "post", rest))
    /\ UNCHANGED <<api_key, given>>

answers(o) ==
    /\ last.seq < MaxCalls
    /\ Dispatch("answers", o, _send_request(api_key, Len(requests), answersUrl, "post", heap[o]))
    /\ UNCHANGED <<api_key, given, heap>>

classification(o) ==
    /\ last.seq < MaxCalls
    /\ Dispatch("classification", o,
                _send_request(api_key, Len(requests), classificationsUrl, "post", heap[o]))
    /\ UNCHANGED <<api_key, given, heap>>

\* the GET calls pass no opts: the parameter's default, {}
engines ==
    /\ last.seq < MaxCalls
    /\ Dispatch("engines", "", _send_request(api_key, Len(requests), enginesUrl, "get", <<>>))
    /\ UNCHANGED <<api_key, given, heap>>

engine(e) ==
    /\ last.seq < MaxCalls
    /\ Dispatch("engine", e, _send_request(api_key, Len(requests), engineUrl(e), "get", <<>>))
    /\ UNCHANGED <<api_key, given, heap>>

embeddings(o) ==
    /\ last.seq < MaxCalls
    /\ LET opts == heap[o]
           chk == _check_embeddings_engine_name(Get(opts, K_engine))
       IN  IF chk.threw
           THEN /\ last' = [seq |-> last.seq + 1, method |-> "embeddings", arg |-> o,
                            threw |-> TRUE, message |-> chk.message, ret |-> NoRet]
                /\ UNCHANGED <<requests, promises>>
           ELSE Dispatch("embeddings", o,
                         _send_request(api_key, Len(requests),
                                       embeddingsUrl(Get(opts, K_engine)), "post", opts))
    /\ UNCHANGED <<api_key, given, heap>>

\* the transport settles the promise of one request; the client has attached
\* nothing to it
Settle(i, outcome) ==
    /\ promises[i] = Pending
    /\ promises' = [promises EXCEPT ![i] = outcome]
    /\ UNCHANGED <<api_key, given, heap, requests, last>>

Next ==
    \/ \E o \in ObjIds : complete(o)
    \/ \E o \in ObjIds : search(o)
    \/ \E o \in ObjIds : answers(o)
    \/ \E o \in ObjIds : classification(o)
    \/ \E o \in ObjIds : embeddings(o)
    \/ engines
    \/ \E e \in EngineArgs : engine(e)
    \/ \E str \in EncodeArgs : encode(str)
    \/ \E i \in 1..Len(promises), outcome \in Outcomes : Settle(i, outcome)

Spec == Init /\ [][Next]_vars

\* the POST calls on the generated object and the validator on both objects,
\* for the input-exhaustive specification
NextInputs ==
    \/ complete("o1")
    \/ search("o1")
    \/ answers("o1")
    \/ classification("o1")
    \/ \E o \in ObjIds : embeddings(o)

SpecInputs == InitInputs /\ [][NextInputs]_vars

----------------------------------------------------------------------------
\* Properties

\* a step that is a facade call named name
Called(name) == last'.seq = last.seq + 1 /\ last'.method = name

\* the request a step has handed to the transport, when it has handed one
Handed == Len(requests') = Len(requests) + 1 /\ SubSeq(requests', 1, Len(requests)) = requests
NewRequest == requests'[Len(requests')]

\* the allow-list of the embeddings path, as a set
AllowList == {availableEngineNames[i] : i \in 1..16}

\* C1: embeddings(opts) hands a request to the transport if and only if
\* opts.engine is one of the 16 names of the allow-list; for every other
\* opts.engine, a missing one included, it throws and hands nothing over.
C1_EmbeddingsGate ==
    [][Called("embeddings") =>
        /\ Len(availableEngineNames) = 16
        /\ IF Get(heap[last'.arg], K_engine) \in AllowList
           THEN ~last'.threw /\ Handed /\ promises' # promises
           ELSE last'.threw /\ requests' = requests /\ promises' = promises]_vars

\* an accepted embeddings call is behind, a rejected one is the last call
C1_Witness ==
    /\ last.method = "embeddings" /\ last.threw /\ last.arg = "o2"
    /\ Len(requests) = 1
    /\ requests[1].url = embeddingsUrl("code-search-babbage-text-001")

\* C2: the error of a rejected embeddings call names the attempted engine value
\* and the valid engine names.
C2_ErrorNamesAttemptedValue ==
    (last.method = "embeddings" /\ last.threw /\ Has(heap[last.arg], K_engine)) =>
        /\ \E i \in 1..Len(last.message) :
              last.message[i] = Interpolate(Get(heap[last.arg], K_engine))
        /\ \A name \in AllowList : \E i \in 1..Len(last.message) : last.message[i] = name

\* the wire key of the key transform as specified: one underscore before each
\* uppercase letter, the whole key lowercased, nothing else changed
RECURSIVE SnakeCase(_)
SnakeCase(key) ==
    IF key = <<>> THEN <<>>
    ELSE (IF Head(key) \in {"B", "T", "P"}
          THEN <<"_", CASE Head(key) = "B" -> "b" [] Head(key) = "T" -> "t" [] OTHER -> "p">>
          ELSE <<Head(key)>>) \o SnakeCase(Tail(key))

\* the options a POST call has handed to the dispatcher: the caller's object,
\* as the call leaves it
PostMethods == {"complete", "search", "answers", "classification", "embeddings"}
PassedOpts == heap'[last'.arg]

\* C3: every options key is sent as the key with one underscore before each
\* uppercase letter and lowercased, a key without uppercase letter unchanged,
\* with its value; an empty mapping is sent as an empty mapping. Stated for
\* the options whose specified wire keys are distinct.
C3_KeysSnakeCased ==
    [][(last'.seq = last.seq + 1 /\ last'.method \in PostMethods /\ ~last'.threw
        /\ \A i, j \in 1..Len(PassedOpts) :
              SnakeCase(PassedOpts[i].k) = SnakeCase(PassedOpts[j].k) => i = j) =>
        /\ Handed
        /\ LET sent == IF NewRequest.data.kind = "object" THEN NewRequest.data.obj ELSE <<>>
           IN  sent = [i \in 1..Len(PassedOpts) |->
                          Entry(SnakeCase(PassedOpts[i].k), PassedOpts[i].v)]]_vars

\* the positions of opts whose keys the transform sends to the wire key w
Sources(opts, w) == {i \in 1..Len(opts) : camelToUnderscore(opts[i].k) = w}

Max(S) == CHOOSE x \in S : \A y \in S : y <= x

\* C10: when several option keys are rewritten to one wire key, the body holds
\* that wire key once, with the value of the last of them in enumeration order;
\* when no two keys collide, the body has as many keys as the options.
C10_LastWriteWins ==
    [][(last'.seq = last.seq + 1 /\ last'.method \in PostMethods /\ ~last'.threw) =>
        /\ Handed
        /\ LET sent == IF NewRequest.data.kind = "object" THEN NewRequest.data.obj ELSE <<>>
               wire == {camelToUnderscore(PassedOpts[i].k) : i \in 1..Len(PassedOpts)}
           IN  /\ \A w \in wire :
                    /\ Cardinality({j \in 1..Len(sent) : sent[j].k = w}) = 1
                    /\ \A j \in 1..Len(sent) :
                          sent[j].k = w => sent[j].v = PassedOpts[Max(Sources(PassedOpts, w))].v
               /\ \A j \in 1..Len(sent) : sent[j].k \in wire
               /\ (\A w \in wire : Cardinality(Sources(PassedOpts, w)) = 1)
                     => Len(sent) = Len(PassedOpts)]_vars

\* two keys of one wire key: the body holds the wire key once, with the
\* later value
C10_Witness ==
    /\ last.method = "answers"
    /\ heap["o1"] = <<Entry(K_topP, "x"), Entry(K_top_p, "y")>>
    /\ requests[Len(requests)].data = ObjectBody(<<Entry(K_top_p, "y")>>)

\* C4: the body of a request is empty exactly when the options after the key
\* transform have no keys, and is the transformed options otherwise; the GET
\* calls engines() and engine(e) always send an empty body.
C4_EmptyBodyIffNoKeys ==
    [][(last'.seq = last.seq + 1 /\ last'.method # "encode" /\ ~last'.threw) =>
        /\ Handed
        /\ LET transformed == IF last'.method \in PostMethods
                              THEN fillData(<<>>, PassedOpts) ELSE <<>>
           IN  /\ (NewRequest.data = [kind |-> "string", str |-> ""]) <=> (Len(transformed) = 0)
               /\ Len(transformed) # 0 =>
                     NewRequest.data = [kind |-> "object", obj |-> transformed]
        /\ last'.method \in {"engines", "engine"} =>
              NewRequest.method = "get" /\ NewRequest.data = [kind |-> "string", str |-> ""]]_vars

\* a POST call whose options are empty after the engine key is gone, and a
\* POST call with a body before it
C4_Witness ==
    /\ Len(requests) = 2
    /\ requests[1].data.kind = "object"
    /\ last.method = "complete"
    /\ requests[2].method = "post" /\ requests[2].data = EmptyBody

\* the engine identifier of complete and search: the caller's when the caller
\* supplied one, the default otherwise
SuppliedEngine(opts) == IF Has(opts, K_engine) THEN Get(opts, K_engine) ELSE "davinci"

\* the same, an empty engine string counting as none
NonEmptyEngine(opts) ==
    IF Has(opts, K_engine) /\ Get(opts, K_engine) # "" THEN Get(opts, K_engine) ELSE "davinci"

EngineUrl(e, resource) == <<"https://api.openai.com", "/", "v1", "/engines/", e, resource>>

AloneComplete(opts) ==
    LET r == _send_request(api_key, 0, completionURL(IF Truthy(Get(opts, K_engine))
                                                     THEN Get(opts, K_engine)
                                                     ELSE DEFAULT_ENGINE),
                           "post", Delete(opts, K_engine)).sent[1]
    IN  <<r.url, r.data>>
AloneSearch(opts) ==
    LET r == _send_request(api_key, 0, searchURL(IF Truthy(Get(opts, K_engine))
                                                 THEN Get(opts, K_engine)
                                                 ELSE DEFAULT_ENGINE),
                           "post", Delete(opts, K_engine)).sent[1]
    IN  <<r.url, r.data>>

\* C6: a complete and a search that are issued without awaiting either never
\* interfere, also when both are given the same options object: the URL and
\* the body of each request are those of the call made alone with the options
\* it was given.
C6_NoInterference ==
    (last.seq = 2 /\ Len(requests) = 2) =>
        LET first == <<requests[1].url, requests[1].data>>
            second == <<requests[2].url, requests[2].data>>
        IN  /\ (last.method = "search" /\ requests[1].url[6] = "/completions") =>
                  /\ second = AloneSearch(given[last.arg])
                  /\ \E o \in ObjIds : first = AloneComplete(given[o])
            /\ (last.method = "complete" /\ requests[1].url[6] = "/search") =>
                  /\ second = AloneComplete(given[last.arg])
                  /\ \E o \in ObjIds : first = AloneSearch(given[o])

\* C7: a facade call that reaches the dispatcher hands exactly one request to
\* the transport, in success and in failure, and what the caller holds is the
\* transport's own promise for that request: its outcome is the transport's.
C7_OneRequestRawOutcome ==
    [][/\ (last'.seq = last.seq + 1 /\ last'.method # "encode" /\ ~last'.threw) =>
            /\ Handed
            /\ Len(promises') = Len(requests')
            /\ SubSeq(promises', 1, Len(promises)) = promises
            /\ last'.ret = [kind |-> "transport", id |-> Len(requests'), value |-> <<>>]
       /\ last'.seq = last.seq =>
            /\ requests' = requests
            /\ last' = last
            /\ Len(promises') = Len(promises)]_vars

\* two calls, two requests, one of them failed with a non-2xx status and the
\* other answered
C7_Witness ==
    /\ last.seq = 2 /\ Len(requests) = 2
    /\ promises[1] = [state |-> "rejected", value |-> "status-404"]
    /\ promises[2] = [state |-> "fulfilled", value |-> "response"]
    /\ last.ret.kind = "transport" /\ last.ret.id = 2

KeySet(obj) == {obj[i].k : i \in 1..Len(obj)}

\* obj2 is obj1 without the key: the other entries, in the same order
Without(obj1, key, obj2) ==
    /\ KeySet(obj2) = KeySet(obj1) \ {key}
    /\ \A i, j \in 1..Len(obj1) :
          (i < j /\ obj1[i].k # key /\ obj1[j].k # key) =>
             \E a, b \in 1..Len(obj2) : a < b /\ obj2[a] = obj1[i] /\ obj2[b] = obj1[j]
    /\ \A i \in 1..Len(obj1) : obj1[i].k # key => \E a \in 1..Len(obj2) : obj2[a] = obj1[i]
    /\ Len(obj2) = Cardinality(KeySet(obj2))

\* C9: complete and search remove the 'engine' key of the caller's object and
\* change nothing else of it, so that their bodies have no 'engine' key; every
\* other method leaves the caller's objects as they are; no method changes the
\* client's API key.
C9_Frame ==
    [][/\ api_key' = api_key
       /\ \A o \in ObjIds :
             IF last'.seq = last.seq + 1 /\ last'.method \in {"complete", "search"}
                /\ last'.arg = o
             THEN /\ Without(heap[o], K_engine, heap'[o])
                  /\ Handed
                  /\ NewRequest.data.kind = "object" =>
                        \A j \in 1..Len(NewRequest.data.obj) : NewRequest.data.obj[j].k # K_engine
             ELSE heap'[o] = heap[o]]_vars

\* the engine key, last in the first object, is gone after complete, and the
\* second object still has its engine
C9_Witness ==
    /\ last.method = "complete" /\ last.arg = "o1"
    /\ heap["o1"] = <<Entry(K_maxTokens, "5")>>
    /\ Has(heap["o2"], K_engine)
    /\ requests[Len(requests)].data = ObjectBody(<<Entry(K_max_tokens, "5")>>)

====
